---------------------------- MODULE Spec2Model ----------------------------
(***************************************************************************)
(* A model of merge.py (agrc/orthomerger): the fishnet over the union of   *)
(* the source rasters, the clipping of every raster into per-cell tiles,   *)
(* the score store (the nested dictionary and the fishnet shapefile), the  *)
(* per-cell ranking of sort_tiles and the paint sequence built by run.     *)
(*                                                                         *)
(* Representation.                                                         *)
(*  - A Python dict is a sequence of <<key, value>> pairs with distinct    *)
(*    keys, in insertion order (the order a dict is iterated in).          *)
(*  - A file name is a sequence of one-character strings, so that          *)
(*    rastername[:-4] and "{}_{}.tif".format(..) are computed.             *)
(*  - Map coordinates, pixel sizes and the fishnet size are integers; the  *)
(*    code's float divisions followed by int() are integer divisions       *)
(*    truncated toward zero.  Floating point rounding is not modelled.     *)
(*  - A distance is given by 4 * distance^2 (np.linalg.norm is a square    *)
(*    root of a sum of squares of half-integers; ordering by the square is *)
(*    ordering by the norm) and a nodatas by 3 * nodatas, the count        *)
(*    num_nodata that the code divides by 3.  Where the sorting alone is   *)
(*    modelled the fields distance and nodatas hold these integers; in a   *)
(*    build run they hold Exact of them, and the shapefile holds them to   *)
(*    15 decimals (Rounded).                                               *)
(***************************************************************************)
EXTENDS Integers, Sequences, FiniteSets, TLC

VARIABLES
    pc,            \* position in run / generate_tiles_from_rasters
    tile_mode,     \* run's argument tile: TRUE builds, FALSE reads the shapefile
    rasters,       \* the .tif files of rectified_dir, in os.walk order
    fishnet_size,  \* run's argument fishnet_size
    ri,            \* index of the raster the current loop is at
    bbox,          \* ulx, uly, lrx, lry of generate_tiles_from_rasters
    fishnet,       \* the list returned by create_fishnet_indices
    ci,            \* index of the fishnet cell copy_tiles_from_raster is at
    raster_cells,  \* the dict cells of copy_tiles_from_raster
    shp_layer,     \* the features of the fishnet shapefile, in creation order
    all_cells,     \* the master dict of run
    last_tile,     \* the tile copy_tiles_from_raster extracted last
    ranked,        \* dict: cell index -> the list sort_tiles returned for it
    si,            \* index of the cell the sorting loop of run is at
    sorted_tiles,  \* run's sorted_tiles
    csv_rows,      \* the rows written to the manifest
    vrt_list,      \* the list handed to gdal.BuildVRT
    built          \* what the preceding build run left (for a reuse run)

vars == <<pc, tile_mode, rasters, fishnet_size, ri, bbox, fishnet, ci,
          raster_cells, shp_layer, all_cells, last_tile, ranked, si,
          sorted_tiles, csv_rows, vrt_list, built>>

gridVars == <<bbox, fishnet>>
copyVars == <<ci, raster_cells, last_tile>>
sortVars == <<ranked, si, sorted_tiles, csv_rows, vrt_list>>

(* Python's None: of a record-valued variable, and of a text field *)
None == [none |-> TRUE]

NullText == <<"NULL">>

-----------------------------------------------------------------------------
(* Bounds of the model. *)

MaxTiles == 3      \* tiles of the cell that is ranked (SpecRank)
MaxScore == 2      \* distance and nodatas values are 0..MaxScore
MaxLoaded == 2     \* features of the shapefile that is loaded (SpecLoad)
MaxFeatures == 3   \* features of the shapefile of a reuse run (SpecRun)
MaxRasters == 2    \* rasters whose union is gridded (SpecGrid)
MaxCellSize == 2   \* fishnet_size is 1..MaxCellSize
MaxOffset == 2     \* raster origin, from the fishnet origin (SpecTile)
MaxPixels == 2     \* columns and rows of the smaller rasters (SpecTile)
MaxBuilt == 2      \* rasters of a build run (SpecBuild)

-----------------------------------------------------------------------------
(* Python dicts and lists. *)

Range(s) == {s[i] : i \in DOMAIN s}

Has(d, k) == \E i \in DOMAIN d : d[i][1] = k

Get(d, k) == d[CHOOSE i \in DOMAIN d : d[i][1] = k][2]

Put(d, k, v) ==
    IF Has(d, k)
    THEN [i \in DOMAIN d |-> IF d[i][1] = k THEN <<k, v>> ELSE d[i]]
    ELSE Append(d, <<k, v>>)

RECURSIVE Update(_, _)
Update(d, other) ==
    IF other = <<>> THEN d
    ELSE Update(Put(d, Head(other)[1], Head(other)[2]), Tail(other))

(* list[:1] and list[1:] *)
FirstOf(list) == IF list = <<>> THEN <<>> ELSE <<Head(list)>>

AfterFirst(list) == IF list = <<>> THEN <<>> ELSE Tail(list)

Reverse(s) == [i \in 1..Len(s) |-> s[Len(s) + 1 - i]]

RECURSIVE Concat(_)
Concat(ss) == IF ss = <<>> THEN <<>> ELSE Head(ss) \o Concat(Tail(ss))

(* list.sort(key=.., reverse=..): keys[i] is the key of list[i].  The sort *)
(* is stable, also with reverse=True: elements of equal key keep their     *)
(* order.                                                                  *)
SortPosition(keys, reverse, i) ==
    Cardinality({j \in DOMAIN keys :
        \/ (IF reverse THEN keys[j] > keys[i] ELSE keys[j] < keys[i])
        \/ (keys[j] = keys[i] /\ j < i)}) + 1

ListSort(list, keys, reverse) ==
    [p \in DOMAIN list |->
        list[CHOOSE i \in DOMAIN list : SortPosition(keys, reverse, i) = p]]

-----------------------------------------------------------------------------
(* Names. *)

Chars(n) == <<"0", "1", "2", "3", "4", "5", "6", "7", "8", "9">>[n + 1]

RECURSIVE Str(_)
Str(n) == IF n < 10 THEN <<Chars(n)>> ELSE Str(n \div 10) \o <<Chars(n % 10)>>

DotTif == <<".", "t", "i", "f">>

CellIndex(x, y) == Str(x) \o <<"-">> \o Str(y)

ButLast4(name) == SubSeq(name, 1, Len(name) - 4)

TileRastername(cell_index, rastername) ==
    cell_index \o <<"_">> \o ButLast4(rastername) \o DotTif

RasterName(i) == <<<<"a", "b", "c", "d", "e", "f">>[i]>> \o DotTif

TilePath(tile_name) == <<"t", "/">> \o tile_name

-----------------------------------------------------------------------------
(* sort_tiles *)

BoolKey(b) == IF b THEN 1 ELSE 0

(* The list of dictionaries built from the nested dictionary. *)
TileList(cell) ==
    [i \in DOMAIN cell |-> [tile_rastername |-> cell[i][1],
                            distance |-> cell[i][2].distance,
                            nodatas |-> cell[i][2].nodatas,
                            override |-> cell[i][2].override]]

SortByOverrideAscending(tile_list) ==
    ListSort(tile_list,
             [i \in DOMAIN tile_list |-> BoolKey(tile_list[i].override)], FALSE)

(* tile_list.sort(key=lambda tile_dict: tile_dict['override'], reverse=True) *)
SortByOverride(tile_list) ==
    ListSort(tile_list,
             [i \in DOMAIN tile_list |-> BoolKey(tile_list[i].override)], TRUE)

(* sorted_list after the override step: tile_list[:1] or [] *)
OverrideWinner(tile_list) ==
    IF tile_list[1].override THEN FirstOf(tile_list) ELSE <<>>

(* distance_list before it is sorted: tile_list[1:] or tile_list *)
DistanceInput(tile_list) ==
    IF tile_list[1].override THEN AfterFirst(tile_list) ELSE tile_list

SortByDistanceDescending(distance_list) ==
    ListSort(distance_list,
             [i \in DOMAIN distance_list |-> distance_list[i].distance], TRUE)

SortByDistanceSkipped(distance_list) == distance_list

(* distance_list.sort(key=lambda tile_dict: tile_dict['distance']) *)
SortByDistance(distance_list) ==
    ListSort(distance_list,
             [i \in DOMAIN distance_list |-> distance_list[i].distance], FALSE)

NodatasInputSkipsOne(distance_list) == AfterFirst(AfterFirst(distance_list))

(* nodatas_list = distance_list[1:] *)
NodatasInput(distance_list) == AfterFirst(distance_list)

SortByNodatasThenDistance(nodatas_list) ==
    SortByDistance(
        ListSort(nodatas_list,
                 [i \in DOMAIN nodatas_list |-> nodatas_list[i].nodatas],
                 FALSE))

(* nodatas_list.sort(key=lambda tile_dict: tile_dict['nodatas']) *)
SortByNodatas(nodatas_list) ==
    ListSort(nodatas_list,
             [i \in DOMAIN nodatas_list |-> nodatas_list[i].nodatas], FALSE)

sort_tiles(cell) ==
    LET tile_list == SortByOverride(TileList(cell))
        distance_list == SortByDistance(DistanceInput(tile_list))
    IN OverrideWinner(tile_list) \o FirstOf(distance_list)
           \o SortByNodatas(NodatasInput(distance_list))

-----------------------------------------------------------------------------
(* Rasters.  A raster is a record name, xmin, ymax (GetGeoTransform()[0]   *)
(* and [3]), xw, yh (the pixel width and the negative pixel height),       *)
(* XSize, YSize, nodata (GetNoDataValue(), NoData when none is set), bands *)
(* and img (the picture, see PixelValue).                                  *)

(* get_bounding_box: (ulx, uly, lrx, lry) *)
get_bounding_box(raster) ==
    <<raster.xmin,
      raster.ymax,
      raster.XSize * raster.xw + raster.xmin,
      raster.YSize * raster.yh + raster.ymax>>

ceildivFloors(first, second) == first \div second

(* ceildiv: -(-first // second) *)
ceildiv(first, second) == -((-first) \div second)

(* create_fishnet_indices, as it is called: pixels=False, so the cell size *)
(* is dimension.  A cell is <<x index, y index, ulx, uly, lrx, lry>>; the  *)
(* list runs through the rows, and in a row through the columns.           *)
create_fishnet_indices(ulx, uly, lrx, lry, dimension) ==
    LET ref_width == lrx - ulx
        ref_height == uly - lry
        cell_ref_size == dimension
        num_x_cells == ceildiv(ref_width, cell_ref_size)
        num_y_cells == ceildiv(ref_height, cell_ref_size)
        Cell(x_index, y_index) ==
            <<x_index, y_index,
              ulx + (cell_ref_size * x_index),
              uly + ((-cell_ref_size) * y_index),
              ulx + (cell_ref_size * (x_index + 1)),
              uly + ((-cell_ref_size) * (y_index + 1))>>
    IN IF num_x_cells <= 0 \/ num_y_cells <= 0 THEN <<>>
       ELSE [n \in 1..(num_x_cells * num_y_cells) |->
                Cell((n - 1) % num_x_cells, (n - 1) \div num_x_cells)]

-----------------------------------------------------------------------------
(* generate_tiles_from_rasters: the bounding box of all rasters and the    *)
(* fishnet over it.                                                        *)

InitialExtent ==
    [ulx |-> 999999999, uly |-> 0, lrx |-> 0, lry |-> 999999999]

(* One pass of the loop over the rasters: the four comparisons. *)
ExtentVisit(b, raster) ==
    LET box == get_bounding_box(raster)
        xmin == box[1]
        ymax == box[2]
        xmax == box[3]
        ymin == box[4]
    IN [ulx |-> IF xmin < b.ulx THEN xmin ELSE b.ulx,
        uly |-> IF ymax > b.uly THEN ymax ELSE b.uly,
        lrx |-> IF xmax > b.lrx THEN xmax ELSE b.lrx,
        lry |-> IF ymin < b.lry THEN ymin ELSE b.lry]

RECURSIVE ExtentOf(_, _)
ExtentOf(b, files) ==
    IF files = <<>> THEN b ELSE ExtentOf(ExtentVisit(b, Head(files)), Tail(files))

ExtentStep ==
    /\ pc = "extent"
    /\ ri <= Len(rasters)
    /\ bbox' = ExtentVisit(bbox, rasters[ri])
    /\ ri' = ri + 1
    /\ UNCHANGED <<pc, tile_mode, rasters, fishnet_size, fishnet, copyVars,
                   shp_layer, all_cells, sortVars, built>>

MakeFishnet ==
    /\ pc = "extent"
    /\ ri > Len(rasters)
    /\ fishnet' = create_fishnet_indices(bbox.ulx, bbox.uly, bbox.lrx,
                                         bbox.lry, fishnet_size)
    /\ ri' = 1
    /\ pc' = "copy"
    /\ UNCHANGED <<tile_mode, rasters, fishnet_size, bbox, copyVars,
                   shp_layer, all_cells, sortVars, built>>

-----------------------------------------------------------------------------
(* copy_tiles_from_raster *)

Abs(x) == IF x < 0 THEN -x ELSE x

(* int(a / b): the quotient truncated toward zero *)
TruncDiv(a, b) ==
    IF (a < 0) = (b < 0) THEN Abs(a) \div Abs(b) ELSE -(Abs(a) \div Abs(b))

(* s_nodata = band1.GetNoDataValue(); if not s_nodata: s_nodata = 256.     *)
(* The raster's nodata is <<>> when it has none, <<value>> otherwise.      *)
Sentinel(raster) ==
    IF raster.nodata = <<>> \/ raster.nodata = <<0>> THEN 256
    ELSE raster.nodata[1]

(* The value a raster's empty pixels hold: its nodata value, 0 without one *)
FillValue(raster) == IF raster.nodata = <<>> THEN 0 ELSE raster.nodata[1]

(* The pictures: img 0 has data everywhere, img 1 is empty in its first    *)
(* column and first row, img 2 is empty everywhere.  A data value is 1..5  *)
(* and differs between neighbouring pixels and between bands.              *)
PixelValue(raster, band, px, py) ==
    IF raster.img = 2 \/ (raster.img = 1 /\ (px = 0 \/ py = 0))
    THEN FillValue(raster)
    ELSE 1 + ((px + 2 * py + band) % 5)

(* The overlap test: a cell edge strictly inside the raster, on both axes  *)
Overlaps(raster, cell) ==
    LET raster_xmin == raster.xmin
        raster_ymax == raster.ymax
        raster_xmax == raster.XSize * raster.xw + raster_xmin
        raster_ymin == raster.YSize * raster.yh + raster_ymax
        cell_xmin == cell[3]
        cell_xmax == cell[5]
        cell_ymin == cell[6]
        cell_ymax == cell[4]
        xmin_inside == cell_xmin > raster_xmin /\ cell_xmin < raster_xmax
        xmax_inside == cell_xmax > raster_xmin /\ cell_xmax < raster_xmax
        ymin_inside == cell_ymin > raster_ymin /\ cell_ymin < raster_ymax
        ymax_inside == cell_ymax > raster_ymin /\ cell_ymax < raster_ymax
    IN (xmin_inside \/ xmax_inside) /\ (ymin_inside \/ ymax_inside)

(* The edge logic of one axis: off and size are x_off and x_size (y_off    *)
(* and y_size), raster_size is RasterXSize (RasterYSize).  The two tests   *)
(* are made one after the other, the second overwriting read_size.         *)
EdgeLogic(off, size, raster_size) ==
    LET before == off < 0
        past == off + size > raster_size
        read_size == IF past THEN raster_size - off
                     ELSE IF before THEN size + off ELSE size
    IN [read_off |-> IF before THEN 0 ELSE off,
        read_size |-> read_size,
        sa_start |-> IF before THEN -off ELSE 0,
        sa_end |-> IF past THEN read_size ELSE size]

(* The pixel window of a cell in a raster, with the 5 pixels added *)
Window(raster, cell) ==
    LET x_off == TruncDiv(cell[3] - raster.xmin, raster.xw)
        y_off == TruncDiv(cell[4] - raster.ymax, raster.yh)
        x_size == TruncDiv(cell[5] - cell[3], raster.xw) + 5
        y_size == TruncDiv(cell[6] - cell[4], raster.yh) + 5
        x == EdgeLogic(x_off, x_size, raster.XSize)
        y == EdgeLogic(y_off, y_size, raster.YSize)
    IN [x_off |-> x_off, y_off |-> y_off, x_size |-> x_size, y_size |-> y_size,
        read_x_off |-> x.read_off, read_y_off |-> y.read_off,
        read_x_size |-> x.read_size, read_y_size |-> y.read_size,
        sa_x_start |-> x.sa_start, sa_x_end |-> x.sa_end,
        sa_y_start |-> y.sa_start, sa_y_end |-> y.sa_end]

(* s_band.ReadAsArray(xoff, yoff, xsize, ysize): GDAL refuses a window     *)
(* that is empty or not inside the raster.                                 *)
ReadAllowed(raster, xoff, yoff, xsize, ysize) ==
    /\ xoff >= 0 /\ yoff >= 0 /\ xsize > 0 /\ ysize > 0
    /\ xoff + xsize <= raster.XSize
    /\ yoff + ysize <= raster.YSize

(* The array read: rows 0..ysize-1 of columns 0..xsize-1 *)
ReadAsArray(raster, band, xoff, yoff, xsize, ysize) ==
    [row \in 0..(ysize - 1) |->
        [col \in 0..(xsize - 1) |-> PixelValue(raster, band, xoff + col, yoff + row)]]

(* a[start:end] of an axis of n places, start and end not negative *)
SliceOf(start, end, n) == {i \in 0..(n - 1) : start <= i /\ i < end}

(* np.full((y_size, x_size), s_nodata), then                               *)
(* slice_array[sa_y_start:sa_y_end, sa_x_start:sa_x_end] = read_array      *)
SliceArray(w, s_nodata, read_array) ==
    [row \in 0..(w.y_size - 1) |->
        [col \in 0..(w.x_size - 1) |->
            IF /\ row \in SliceOf(w.sa_y_start, w.sa_y_end, w.y_size)
               /\ col \in SliceOf(w.sa_x_start, w.sa_x_end, w.x_size)
            THEN read_array[row - w.sa_y_start][col - w.sa_x_start]
            ELSE s_nodata]]

(* The assignment needs the slice and read_array to be of one shape *)
SliceFits(w) ==
    /\ Cardinality(SliceOf(w.sa_y_start, w.sa_y_end, w.y_size)) = w.read_y_size
    /\ Cardinality(SliceOf(w.sa_x_start, w.sa_x_end, w.x_size)) = w.read_x_size

(* (read_array == s_nodata).sum() *)
CountEqual(array, value) ==
    Cardinality({rc \in (DOMAIN array) \X (DOMAIN array[0]) :
                    array[rc[1]][rc[2]] = value})

RECURSIVE SumOver(_, _)
SumOver(f, S) ==
    IF S = {} THEN 0
    ELSE LET x == CHOOSE y \in S : TRUE IN f[x] + SumOver(f, S \ {x})

(* The numbers of a tile's score are not integers: distance is half the   *)
(* square root of Distance below and nodatas is num_nodata / 3.  Such a    *)
(* number is held as Exact(s), s the integer it is made from (Distance,    *)
(* num_nodata), and Rounded(Exact(s)) is the number of 15 decimals nearest *)
(* to it when it has more decimals.  Two numbers of different s are much   *)
(* further apart than 15 decimals tell, so that the order of the integers  *)
(* is the order of the numbers.                                            *)
Exact(s) == 2 * s

Rounded(number) == number + 1

(* 4 * distance^2, distance the norm of cell centre - raster centre *)
Distance(raster, cell) ==
    LET dx == (cell[5] + cell[3]) - (raster.XSize * raster.xw + 2 * raster.xmin)
        dy == (cell[4] + cell[6]) - (raster.YSize * raster.yh + 2 * raster.ymax)
    IN dx * dx + dy * dy

TileTransformOfReadWindow(raster, w) ==
    <<w.read_x_off * raster.xw + raster.xmin, raster.xw, 0,
      w.read_y_off * raster.yh + raster.ymax, 0, raster.yh>>

(* raster_chunk_xmin = x_off * raster_xwidth + raster_xmin, and ymax;      *)
(* t_trans = (raster_chunk_xmin, raster_xwidth, 0, raster_chunk_ymax, 0,   *)
(* raster_yheight)                                                         *)
TileTransform(raster, w) ==
    <<w.x_off * raster.xw + raster.xmin, raster.xw, 0,
      w.y_off * raster.yh + raster.ymax, 0, raster.yh>>

(* What copy_tiles_from_raster does for one cell that passes the overlap   *)
(* test: the windows, the tile raster and its score.                       *)
Extract(raster, cell) ==
    LET w == Window(raster, cell)
        s_nodata == Sentinel(raster)
        bands == 1..raster.bands
        read_ok == ReadAllowed(raster, w.read_x_off, w.read_y_off,
                               w.read_x_size, w.read_y_size)
        copy_ok == read_ok /\ SliceFits(w)
        read_array == [band \in bands |->
                          ReadAsArray(raster, band, w.read_x_off, w.read_y_off,
                                      w.read_x_size, w.read_y_size)]
    IN [cell_index |-> CellIndex(cell[1], cell[2]),
        rastername |-> raster.name,
        raster |-> raster,
        cell |-> cell,
        tile_rastername |->
            TileRastername(CellIndex(cell[1], cell[2]), raster.name),
        window |-> w,
        t_trans |-> TileTransform(raster, w),
        s_nodata |-> s_nodata,
        read_ok |-> read_ok,
        copy_ok |-> copy_ok,
        slice_array |-> IF copy_ok
                        THEN [band \in bands |->
                                 SliceArray(w, s_nodata, read_array[band])]
                        ELSE <<>>,
        num_nodata |-> IF read_ok
                       THEN SumOver([band \in bands |->
                                        CountEqual(read_array[band], s_nodata)],
                                    bands)
                       ELSE 0,
        new_num_nodata |->
            IF read_ok
            THEN Exact(SumOver([band \in bands |->
                                   CountEqual(read_array[band], s_nodata)],
                               bands))
            ELSE Exact(0),
        distance |-> Exact(Distance(raster, cell))]

IsSquare(n) == \E k \in 0..n : k * k = n

(* feature.SetField('d_to_cent', distance) on the OFTReal field, which the *)
(* shapefile holds as decimal text of 15 decimals: distance, half the      *)
(* square root of Distance, has no more decimals than that only when       *)
(* Distance is a square.                                                   *)
DistanceField(distance) ==
    IF IsSquare(distance \div 2) THEN distance ELSE Rounded(distance)

(* feature.SetField('nodatas', new_num_nodata): num_nodata / 3 has no more *)
(* than 15 decimals only when num_nodata is a multiple of 3.               *)
NodatasField(new_num_nodata) ==
    IF (new_num_nodata \div 2) % 3 = 0 THEN new_num_nodata
    ELSE Rounded(new_num_nodata)

TileFeature(t) ==
    [raster |-> t.rastername, cell |-> t.cell_index,
     d_to_cent |-> DistanceField(t.distance),
     nodatas |-> NodatasField(t.new_num_nodata), override |-> NullText]

(* cells[cell_index][tile_rastername] = {...} *)
AddTile(cells, t) ==
    LET tile_dict == [distance |-> t.distance, nodatas |-> t.new_num_nodata,
                      override |-> FALSE]
        inner == IF Has(cells, t.cell_index) THEN Get(cells, t.cell_index)
                 ELSE <<>>
    IN Put(cells, t.cell_index, Put(inner, t.tile_rastername, tile_dict))

(* One pass of the loop over the fishnet, for the raster at ri.  A read    *)
(* that GDAL refuses leaves read_array None and the next statement raises, *)
(* as does the assignment of an array of another shape than the slice: the *)
(* run ends there, the tile raster created and nothing written to it.      *)
CopyCell ==
    /\ pc = "copy"
    /\ ri <= Len(rasters)
    /\ ci <= Len(fishnet)
    /\ LET raster == rasters[ri]
           cell == fishnet[ci]
           t == Extract(raster, cell)
       IN IF ~Overlaps(raster, cell)
          THEN /\ last_tile' = None
               /\ UNCHANGED <<pc, raster_cells, shp_layer>>
          ELSE /\ last_tile' = t
               /\ IF t.copy_ok
                  THEN /\ shp_layer' = Append(shp_layer, TileFeature(t))
                       /\ raster_cells' = AddTile(raster_cells, t)
                       /\ pc' = pc
                  ELSE /\ pc' = "aborted"
                       /\ UNCHANGED <<raster_cells, shp_layer>>
    /\ ci' = ci + 1
    /\ UNCHANGED <<tile_mode, rasters, fishnet_size, ri, gridVars, all_cells,
                   sortVars, built>>

(* The merge of a raster's cells into the master dictionary *)
RECURSIVE MergeCells(_, _)
MergeCells(master, cells) ==
    IF cells = <<>> THEN master
    ELSE LET cell_index == Head(cells)[1]
         IN MergeCells(
                IF Has(master, cell_index)
                THEN Put(master, cell_index,
                         Update(Get(master, cell_index), Head(cells)[2]))
                ELSE Append(master, Head(cells)),
                Tail(cells))

(* copy_tiles_from_raster returns; its cells are merged; after the last    *)
(* raster generate_tiles_from_rasters returns and run goes on to sort.     *)
MergeRaster ==
    /\ pc = "copy"
    /\ ri <= Len(rasters)
    /\ ci > Len(fishnet)
    /\ all_cells' = MergeCells(all_cells, raster_cells)
    /\ raster_cells' = <<>>
    /\ ci' = 1
    /\ ri' = ri + 1
    /\ pc' = IF ri = Len(rasters) THEN "sort" ELSE "copy"
    /\ UNCHANGED <<tile_mode, rasters, fishnet_size, gridVars, shp_layer,
                   last_tile, sortVars, built>>

-----------------------------------------------------------------------------
(* read_tiles_from_shapefile.  A feature is a record raster, cell,         *)
(* d_to_cent, nodatas, override; the override field is a text (a sequence  *)
(* of characters) or NullText when it was never set.                       *)

FoldChar(c) ==
    CASE c = "Y" -> "y"
      [] c = "N" -> "n"
      [] c = "E" -> "e"
      [] c = "S" -> "s"
      [] OTHER -> c

(* str.casefold, on the letters the model's texts are written with *)
Casefold(text) == [i \in DOMAIN text |-> FoldChar(text[i])]

ParseOverrideCaseSensitive(override_text) ==
    override_text # NullText /\ override_text # <<>> /\ override_text = <<"y">>

(* override = False; if override_text and override_text.casefold() == 'y' *)
ParseOverride(override_text) ==
    /\ override_text # NullText
    /\ override_text # <<>>
    /\ Casefold(override_text) = <<"y">>

FeatureTileNameKeepsExtension(feature) ==
    feature.cell \o <<"_">> \o feature.raster \o DotTif

(* tile_rastername = "{}_{}.tif".format(cell_index, rastername[:-4]) *)
FeatureTileName(feature) == TileRastername(feature.cell, feature.raster)

FeatureTileDict(feature) ==
    [distance |-> feature.d_to_cent,
     nodatas |-> feature.nodatas,
     override |-> ParseOverride(feature.override)]

RECURSIVE ReadFeatures(_, _)
ReadFeatures(cells, layer) ==
    IF layer = <<>> THEN cells
    ELSE LET feature == Head(layer)
             cell_index == feature.cell
             tile == <<FeatureTileName(feature), FeatureTileDict(feature)>>
         IN ReadFeatures(
                IF Has(cells, cell_index)
                THEN Put(cells, cell_index,
                         Put(Get(cells, cell_index), tile[1], tile[2]))
                ELSE Append(cells, <<cell_index, <<tile>>>>),
                Tail(layer))

read_tiles_from_shapefile(layer) == ReadFeatures(<<>>, layer)

-----------------------------------------------------------------------------
(* run, from the sorting loop on. *)

PaintOrderKept(cell_tiles) == cell_tiles

(* cell_tiles.reverse() *)
PaintOrder(cell_tiles) == Reverse(cell_tiles)

SortCell ==
    /\ pc = "sort"
    /\ si <= Len(all_cells)
    /\ LET cell_tiles == sort_tiles(all_cells[si][2])
       IN /\ ranked' = Put(ranked, all_cells[si][1], cell_tiles)
          /\ sorted_tiles' = sorted_tiles \o PaintOrder(cell_tiles)
    /\ si' = si + 1
    /\ UNCHANGED <<pc, tile_mode, rasters, fishnet_size, ri, gridVars,
                   copyVars, shp_layer, all_cells, csv_rows, vrt_list, built>>

WriteCsv ==
    /\ pc = "sort"
    /\ si > Len(all_cells)
    /\ csv_rows' = [i \in DOMAIN sorted_tiles |->
                        <<TilePath(sorted_tiles[i].tile_rastername)>>]
    /\ pc' = "vrt"
    /\ UNCHANGED <<tile_mode, rasters, fishnet_size, ri, gridVars, copyVars,
                   shp_layer, all_cells, ranked, si, sorted_tiles, vrt_list,
                   built>>

BuildVrt ==
    /\ pc = "vrt"
    /\ vrt_list' = [i \in DOMAIN sorted_tiles |->
                        TilePath(sorted_tiles[i].tile_rastername)]
    /\ pc' = "done"
    /\ UNCHANGED <<tile_mode, rasters, fishnet_size, ri, gridVars, copyVars,
                   shp_layer, all_cells, ranked, si, sorted_tiles, csv_rows,
                   built>>

-----------------------------------------------------------------------------
(* The ranking of one cell: every cell of at most MaxTiles tiles, the i-th *)
(* inserted tile being the tile of the i-th raster, with every distance,   *)
(* nodatas and override value.                                             *)

Scores == 0..MaxScore

TileDicts == [distance : Scores, nodatas : Scores, override : BOOLEAN]

(* sort_tiles only compares scores, so of the cells that differ by an      *)
(* order-preserving renaming of their distances (or of their nodatas) one   *)
(* is drawn: the one whose values are 0..k without a gap.                   *)
NoGap(values) == values = 0..(Cardinality(values) - 1)

Canonical(f) ==
    /\ NoGap({f[i].distance : i \in DOMAIN f})
    /\ NoGap({f[i].nodatas : i \in DOMAIN f})

CellDict(f) ==
    [i \in DOMAIN f |-> <<TileRastername(CellIndex(0, 0), RasterName(i)), f[i]>>]

IdleGrid == /\ bbox = None
            /\ fishnet = <<>>

IdleCopy == /\ ci = 1
            /\ raster_cells = <<>>
            /\ last_tile = None

StartSort == /\ ranked = <<>>
             /\ si = 1
             /\ sorted_tiles = <<>>
             /\ csv_rows = <<>>
             /\ vrt_list = <<>>

InitRank ==
    /\ pc = "sort"
    /\ tile_mode = FALSE
    /\ rasters = <<>>
    /\ fishnet_size = 0
    /\ ri = 0
    /\ IdleGrid
    /\ IdleCopy
    /\ shp_layer = <<>>
    /\ \E n \in 1..MaxTiles : \E f \in [1..n -> TileDicts] :
            /\ Canonical(f)
            /\ all_cells = <<<<CellIndex(0, 0), CellDict(f)>>>>
    /\ StartSort
    /\ built = None

NextRank == SortCell

SpecRank == InitRank /\ [][NextRank]_vars

-----------------------------------------------------------------------------
(* run with tile = False: the shapefile of an earlier run is read.         *)

ReadShapefile ==
    /\ pc = "read"
    /\ all_cells' = read_tiles_from_shapefile(shp_layer)
    /\ pc' = "sort"
    /\ UNCHANGED <<tile_mode, rasters, fishnet_size, ri, gridVars, copyVars,
                   shp_layer, sortVars, built>>

OverrideTexts ==
    {NullText, <<>>, <<"y">>, <<"Y">>, <<"n">>, <<"y", "e", "s">>}

ReuseStart(layer) ==
    /\ pc = "read"
    /\ tile_mode = FALSE
    /\ rasters = <<>>
    /\ fishnet_size = 0
    /\ ri = 0
    /\ IdleGrid
    /\ IdleCopy
    /\ shp_layer = layer
    /\ all_cells = <<>>
    /\ StartSort
    /\ built = None

(* The loading and ranking of one cell: a shapefile of at most MaxLoaded   *)
(* features of cell 0-0, the i-th of the i-th raster, with every score and *)
(* every override text.                                                    *)
LoadedFeatures ==
    [raster : {<<>>}, cell : {CellIndex(0, 0)}, d_to_cent : Scores,
     nodatas : Scores, override : OverrideTexts]

InitLoad ==
    \E n \in 1..MaxLoaded : \E f \in [1..n -> LoadedFeatures] :
        /\ NoGap({f[i].d_to_cent : i \in 1..n})
        /\ NoGap({f[i].nodatas : i \in 1..n})
        /\ ReuseStart([i \in 1..n |-> [f[i] EXCEPT !.raster = RasterName(i)]])

NextLoad == ReadShapefile \/ SortCell

SpecLoad == InitLoad /\ [][NextLoad]_vars

(* A reuse run over two cells: a shapefile of at most MaxFeatures          *)
(* features, the i-th of the i-th raster and of either cell, with override *)
(* set or not; its scores are drawn together (distance s, nodatas          *)
(* MaxScore - s) to keep the run small.                                    *)
RunCells == {CellIndex(0, 0), CellIndex(1, 0)}

RunFeatures ==
    {[raster |-> <<>>, cell |-> c, d_to_cent |-> sc,
      nodatas |-> MaxScore - sc, override |-> t] :
        c \in RunCells, sc \in Scores, t \in {NullText, <<"y">>}}

InitRun ==
    \E n \in 1..MaxFeatures : \E f \in [1..n -> RunFeatures] :
        ReuseStart([i \in 1..n |-> [f[i] EXCEPT !.raster = RasterName(i)]])

NextRun == ReadShapefile \/ SortCell \/ WriteCsv \/ BuildVrt

SpecRun == InitRun /\ [][NextRun]_vars

-----------------------------------------------------------------------------
(* The bounding box and the fishnet of at most MaxRasters rasters of one   *)
(* or two pixels a side, at negative and positive coordinates.             *)

Corners == {-3, 0, 2}

BuildStart(files, size) ==
    /\ pc = "extent"
    /\ tile_mode = TRUE
    /\ rasters = files
    /\ fishnet_size = size
    /\ ri = 1
    /\ bbox = InitialExtent
    /\ fishnet = <<>>
    /\ IdleCopy
    /\ shp_layer = <<>>
    /\ all_cells = <<>>
    /\ StartSort
    /\ built = None

GridRasters ==
    [name : {<<>>}, xmin : Corners, ymax : Corners, xw : {1}, yh : {-1},
     XSize : 1..2, YSize : {1}, nodata : {<<>>}, bands : {1}, img : {0}]

InitGrid ==
    \E n \in 1..MaxRasters : \E f \in [1..n -> GridRasters] :
        \E size \in 1..MaxCellSize :
            BuildStart([i \in 1..n |-> [f[i] EXCEPT !.name = RasterName(i),
                                                    !.YSize = f[i].XSize]],
                       size)

NextGrid == ExtentStep \/ MakeFishnet

SpecGrid == InitGrid /\ [][NextGrid]_vars

-----------------------------------------------------------------------------
(* The tiles of one raster: a raster of 1..MaxPixels or MaxPixels + 4      *)
(* columns and rows of pixels of size 1 or 2 (the larger raster takes in a *)
(* cell and its 5 pixels), at most MaxOffset right of and below the        *)
(* fishnet origin (0, 0) (the other rasters of the directory make the      *)
(* fishnet begin before the raster), with cells of up to MaxCellSize + 1,  *)
(* so that a cell can hold a raster with room on every side.               *)

PixelCounts == (1..MaxPixels) \cup {MaxPixels + 4}

Pictures ==
    {[nodata |-> <<>>, bands |-> 3, img |-> 1],
     [nodata |-> <<0>>, bands |-> 3, img |-> 1],
     [nodata |-> <<255>>, bands |-> 1, img |-> 1]}

TileStart(raster, lrx, lry, size) ==
    /\ pc = "copy"
    /\ tile_mode = TRUE
    /\ rasters = <<raster>>
    /\ fishnet_size = size
    /\ ri = 1
    /\ bbox = [ulx |-> 0, uly |-> 0, lrx |-> lrx, lry |-> lry]
    /\ fishnet = create_fishnet_indices(0, 0, lrx, lry, size)
    /\ IdleCopy
    /\ shp_layer = <<>>
    /\ all_cells = <<>>
    /\ StartSort
    /\ built = None

InitTile ==
    \E xoff, yoff \in 0..MaxOffset, xs, ys \in PixelCounts, pw \in 1..2,
       size \in 1..(MaxCellSize + 1), pic \in Pictures :
        LET raster == [name |-> RasterName(1), xmin |-> xoff, ymax |-> -yoff,
                       xw |-> pw, yh |-> -pw, XSize |-> xs, YSize |-> ys,
                       nodata |-> pic.nodata, bands |-> pic.bands,
                       img |-> pic.img]
            box == get_bounding_box(raster)
        IN TileStart(raster, box[3], box[4], size)

NextTile == CopyCell \/ MergeRaster

SpecTile == InitTile /\ [][NextTile]_vars

-----------------------------------------------------------------------------
(* A build run and the reuse run after it: at most MaxBuilt rasters of     *)
(* pixel size 1, with top edge at y = 4, 2 or 4 pixels wide and high, of   *)
(* one band or three.                                                      *)

(* run with tile = False after a run with tile = True: what the build run  *)
(* left is kept in built, and the shapefile it wrote is read.              *)
StartReuse ==
    /\ pc = "done"
    /\ tile_mode
    /\ built' = [all_cells |-> all_cells, ranked |-> ranked,
                 vrt_list |-> vrt_list]
    /\ tile_mode' = FALSE
    /\ pc' = "read"
    /\ all_cells' = <<>>
    /\ ranked' = <<>>
    /\ si' = 1
    /\ sorted_tiles' = <<>>
    /\ csv_rows' = <<>>
    /\ vrt_list' = <<>>
    /\ UNCHANGED <<rasters, fishnet_size, ri, gridVars, copyVars, shp_layer>>

BuiltRasters ==
    {[name |-> <<>>, xmin |-> x, ymax |-> 4, xw |-> 1, yh |-> -1,
      XSize |-> xs, YSize |-> ys, nodata |-> IF xs = 2 THEN <<>> ELSE <<255>>,
      bands |-> IF ys = 2 THEN 1 ELSE 3, img |-> 1] :
        x \in {0, 2}, xs \in {2, 4}, ys \in {2, 4}}

InitBuild ==
    \E n \in 1..MaxBuilt : \E f \in [1..n -> BuiltRasters] :
        \E size \in 1..MaxCellSize :
            BuildStart([i \in 1..n |-> [f[i] EXCEPT !.name = RasterName(i)]],
                       size)

NextBuild ==
    \/ ExtentStep
    \/ MakeFishnet
    \/ CopyCell
    \/ MergeRaster
    \/ SortCell
    \/ WriteCsv
    \/ BuildVrt
    \/ StartReuse
    \/ ReadShapefile

SpecBuild == InitBuild /\ [][NextBuild]_vars

-----------------------------------------------------------------------------
(* Properties of the ranking. *)

Names(list) == [i \in DOMAIN list |-> list[i].tile_rastername]

DictKeys(d) == [i \in DOMAIN d |-> d[i][1]]

Count(list, x) == Cardinality({i \in DOMAIN list : list[i] = x})

IsPermutationOf(a, b) ==
    /\ Len(a) = Len(b)
    /\ \A x \in Range(a) \cup Range(b) : Count(a, x) = Count(b, x)

Position(list, name) == CHOOSE i \in DOMAIN list : list[i].tile_rastername = name

(* The cell dictionary with its entries inserted in the order p. *)
Reinserted(cell, p) == [i \in DOMAIN cell |-> cell[p[i]]]

Overrides(cell) == {i \in DOMAIN cell : cell[i][2].override}

(* C1: the list sort_tiles returns for a cell holds every tile name of the *)
(* cell exactly once, each with the scores it has in the cell, whatever    *)
(* the override, distance and nodatas values are; and the list is the one  *)
(* a second call on the same cell returns.                                 *)
C1_RankIsPermutation ==
    \A k \in DOMAIN ranked :
        LET cell == Get(all_cells, ranked[k][1])
            list == ranked[k][2]
        IN /\ IsPermutationOf(Names(list), DictKeys(cell))
           /\ \A i \in DOMAIN list :
                  /\ Count(Names(list), list[i].tile_rastername) = 1
                  /\ Get(cell, list[i].tile_rastername) =
                        [distance |-> list[i].distance,
                         nodatas |-> list[i].nodatas,
                         override |-> list[i].override]
           /\ sort_tiles(cell) = list

C1_Witness ==
    \E k \in DOMAIN ranked :
        /\ Len(ranked[k][2]) = MaxTiles
        /\ Cardinality(Overrides(Get(all_cells, ranked[k][1]))) = 2
        /\ Names(ranked[k][2]) # DictKeys(Get(all_cells, ranked[k][1]))

(* C2, as claimed: in the ranked list of every cell, every tile with       *)
(* override = true is at a smaller rank than every tile with override =    *)
(* false, also when the cell holds several override tiles.                 *)
C2_OverrideBeforeAll ==
    \A k \in DOMAIN ranked :
        LET list == ranked[k][2]
        IN \A a, b \in DOMAIN list :
              list[a].override /\ ~list[b].override => a < b

(* C2, amended: when a cell holds override tiles, the one inserted first   *)
(* is at rank 0, before every tile with override = false; a cell with      *)
(* exactly one override tile has it before all its other tiles.  Further   *)
(* override tiles are ranked with the rest.                                *)
C2_FirstOverrideRanksFirst ==
    \A k \in DOMAIN ranked :
        LET cell == Get(all_cells, ranked[k][1])
            list == ranked[k][2]
            first == CHOOSE i \in Overrides(cell) :
                        \A j \in Overrides(cell) : i <= j
        IN Overrides(cell) # {} =>
              /\ list[1].tile_rastername = cell[first][1]
              /\ list[1].override
              /\ \A b \in DOMAIN list : ~list[b].override => 1 < b
              /\ Cardinality(Overrides(cell)) = 1 =>
                    \A a, b \in DOMAIN list :
                        list[a].override /\ ~list[b].override => a < b

C2_Witness ==
    \E k \in DOMAIN ranked :
        LET cell == Get(all_cells, ranked[k][1])
            list == ranked[k][2]
        IN /\ Len(list) = MaxTiles
           /\ Cardinality(Overrides(cell)) = 1
           /\ ~cell[1][2].override
           /\ list[1].override
           /\ \E b \in DOMAIN list : list[b].distance < list[1].distance

(* C4, as claimed: the list sort_tiles returns is the same whatever order  *)
(* the tiles were inserted into the cell dictionary, ties included.        *)
C4_OrderIndependent ==
    \A k \in DOMAIN ranked :
        LET cell == Get(all_cells, ranked[k][1])
        IN \A p \in Permutations(DOMAIN cell) :
              sort_tiles(Reinserted(cell, p)) = ranked[k][2]

NoTies(cell) ==
    /\ Cardinality(Overrides(cell)) <= 1
    /\ \A i, j \in DOMAIN cell :
          i # j => /\ cell[i][2].distance # cell[j][2].distance
                   /\ cell[i][2].nodatas # cell[j][2].nodatas

(* C4, amended: for a cell with at most one override tile whose tiles have *)
(* pairwise different distances and pairwise different nodatas, the list   *)
(* sort_tiles returns is the same whatever order the tiles were inserted   *)
(* in.                                                                     *)
C4_OrderIndependentWithoutTies ==
    \A k \in DOMAIN ranked :
        LET cell == Get(all_cells, ranked[k][1])
        IN NoTies(cell) =>
              \A p \in Permutations(DOMAIN cell) :
                  sort_tiles(Reinserted(cell, p)) = ranked[k][2]

C4_Witness ==
    \E k \in DOMAIN ranked :
        LET cell == Get(all_cells, ranked[k][1])
        IN /\ NoTies(cell)
           /\ Len(cell) = MaxTiles
           /\ Overrides(cell) # {}
           /\ Names(ranked[k][2]) # DictKeys(cell)
           /\ Names(ranked[k][2]) # Reverse(DictKeys(cell))

-----------------------------------------------------------------------------
(* Properties of loading the shapefile. *)

Loaded == pc # "read"

CellRanked(cell_index) == Has(ranked, cell_index)

FeatureTile(feature) ==
    Get(Get(all_cells, feature.cell), FeatureTileName(feature))

IsYes(text) == text = <<"y">> \/ text = <<"Y">>

(* C3, as claimed: a feature whose override text is "y" or "Y" is loaded   *)
(* with override = true and is at rank 0 of its cell once the cell is      *)
(* ranked, whatever its scores and the other tiles of the cell; every      *)
(* other text, and no text, loads as override = false.                     *)
C3_YesAlwaysRanksFirst ==
    Loaded =>
        \A i \in DOMAIN shp_layer :
            LET feature == shp_layer[i]
            IN /\ FeatureTile(feature).override = IsYes(feature.override)
               /\ IsYes(feature.override) /\ CellRanked(feature.cell) =>
                     Get(ranked, feature.cell)[1].tile_rastername =
                         FeatureTileName(feature)

(* C3, amended: a feature whose override text is "y" or "Y" is loaded with *)
(* override = true, every other text and no text loads as override =       *)
(* false; and the first feature of a cell (in feature order) whose text is *)
(* "y" or "Y" is at rank 0 of its cell, whatever its scores and the other  *)
(* tiles of the cell.  A later such feature of the same cell is not.       *)
C3_FirstYesRanksFirst ==
    Loaded =>
        \A i \in DOMAIN shp_layer :
            LET feature == shp_layer[i]
                earlier == \E j \in 1..(i - 1) :
                              /\ shp_layer[j].cell = feature.cell
                              /\ IsYes(shp_layer[j].override)
            IN /\ FeatureTile(feature).override = IsYes(feature.override)
               /\ IsYes(feature.override) /\ CellRanked(feature.cell) =>
                     (Get(ranked, feature.cell)[1].tile_rastername =
                         FeatureTileName(feature)) = ~earlier

C3_Witness ==
    /\ Loaded
    /\ Len(shp_layer) = MaxLoaded
    /\ shp_layer[MaxLoaded].override = <<"Y">>
    /\ shp_layer[1].override = <<"y", "e", "s">>
    /\ shp_layer[MaxLoaded].d_to_cent > shp_layer[1].d_to_cent
    /\ shp_layer[MaxLoaded].nodatas > shp_layer[1].nodatas
    /\ CellRanked(shp_layer[MaxLoaded].cell)
    /\ Get(ranked, shp_layer[MaxLoaded].cell)[1].tile_rastername =
           FeatureTileName(shp_layer[MaxLoaded])

-----------------------------------------------------------------------------
(* Properties of the paint sequence. *)

PaintNames == Names(sorted_tiles)

(* The places of the tiles of a cell in the paint sequence. *)
PlacesOf(cell) ==
    {i \in DOMAIN sorted_tiles : Has(cell, sorted_tiles[i].tile_rastername)}

(* C5: when run has built its lists, the tiles of every cell are one       *)
(* contiguous block of the paint sequence, in the reverse of the cell's    *)
(* ranked list, so the rank-0 tile is the last of the block; every tile of *)
(* the score store is in the sequence exactly once; the manifest rows and  *)
(* the list handed to the composite builder are in that order.             *)
C5_PaintSequence ==
    pc = "done" =>
        /\ \A k \in DOMAIN all_cells :
              LET cell == all_cells[k][2]
                  list == Get(ranked, all_cells[k][1])
                  places == PlacesOf(cell)
                  lo == CHOOSE i \in places : \A j \in places : i <= j
              IN /\ list = sort_tiles(cell)
                 /\ places = lo..(lo + Len(cell) - 1)
                 /\ \A r \in DOMAIN list :
                        sorted_tiles[lo + Len(list) - r] = list[r]
                 /\ \A t \in DOMAIN cell : Count(PaintNames, cell[t][1]) = 1
        /\ Len(sorted_tiles) = Len(Concat([k \in DOMAIN all_cells |->
                                                all_cells[k][2]]))
        /\ csv_rows = [i \in DOMAIN sorted_tiles |-> <<TilePath(PaintNames[i])>>]
        /\ vrt_list = [i \in DOMAIN sorted_tiles |-> TilePath(PaintNames[i])]

C5_Witness ==
    /\ pc = "done"
    /\ Len(all_cells) = 2
    /\ Len(all_cells[1][2]) = 2
    /\ Len(vrt_list) = MaxFeatures
    /\ shp_layer[2].cell # shp_layer[1].cell
    /\ Names(Get(ranked, all_cells[1][1])) = DictKeys(all_cells[1][2])

-----------------------------------------------------------------------------
(* Properties of the ranks after the override winner. *)

(* The rank of the distance winner: 1, or 2 after an override winner *)
DistanceRank(cell) == IF Overrides(cell) = {} THEN 1 ELSE 2

(* C12: in the ranked list of a cell, the tile at the first rank after the *)
(* override winner (the first rank when no tile is overridden) is a tile   *)
(* of the cell other than the override winner, and its distance is the     *)
(* smallest of all tiles of the cell other than the override winner.       *)
C12_DistanceWinner ==
    \A k \in DOMAIN ranked :
        LET cell == Get(all_cells, ranked[k][1])
            list == ranked[k][2]
            r == DistanceRank(cell)
            others == {i \in DOMAIN cell :
                         r = 1 \/ cell[i][1] # list[1].tile_rastername}
        IN others # {} =>
              /\ r \in DOMAIN list
              /\ \E i \in others :
                    /\ cell[i][1] = list[r].tile_rastername
                    /\ cell[i][2].distance = list[r].distance
              /\ \A i \in others : list[r].distance <= cell[i][2].distance

C12_Witness ==
    \E k \in DOMAIN ranked :
        LET cell == Get(all_cells, ranked[k][1])
            list == ranked[k][2]
        IN /\ Len(list) = MaxTiles
           /\ Cardinality(Overrides(cell)) = 2
           /\ list[2].override
           /\ list[2].tile_rastername = cell[MaxTiles][1]
           /\ list[2].distance < list[1].distance
           /\ \E i \in DOMAIN list : list[i].nodatas < list[2].nodatas

-----------------------------------------------------------------------------
(* Properties of the bounding box and of the fishnet. *)

Min(S) == CHOOSE x \in S : \A y \in S : x <= y

Max(S) == CHOOSE x \in S : \A y \in S : x >= y

Boxes == {get_bounding_box(rasters[i]) : i \in DOMAIN rasters}

(* The extent of the union of the rasters' bounding boxes. *)
UnionExtent ==
    [ulx |-> Min({b[1] : b \in Boxes}), uly |-> Max({b[2] : b \in Boxes}),
     lrx |-> Max({b[3] : b \in Boxes}), lry |-> Min({b[4] : b \in Boxes})]

ExtentDone == (pc = "extent" /\ ri > Len(rasters)) \/ pc = "copy"

(* C7: once all rasters are visited, the global bounding box is the extent *)
(* of the union of their bounding boxes (min xmin, max ymax, max xmax, min *)
(* ymin), at any coordinates, and it is the one every other order of       *)
(* visiting the rasters gives.                                             *)
C7_ExtentIsUnion ==
    ExtentDone =>
        /\ bbox = UnionExtent
        /\ \A p \in Permutations(DOMAIN rasters) :
              ExtentOf(InitialExtent, [i \in DOMAIN rasters |-> rasters[p[i]]])
                  = bbox

(* Half units: a point is given by twice its coordinates, so that points   *)
(* between the integer coordinates are points too.                         *)
InCell(cell, px2, py2) ==
    /\ 2 * cell[3] <= px2 /\ px2 <= 2 * cell[5]
    /\ 2 * cell[6] <= py2 /\ py2 <= 2 * cell[4]

OnCellEdge(cell, px2, py2) ==
    px2 \in {2 * cell[3], 2 * cell[5]} \/ py2 \in {2 * cell[6], 2 * cell[4]}

CellsAt(px2, py2) == {n \in DOMAIN fishnet : InCell(fishnet[n], px2, py2)}

CeilingOf(a, b) == CHOOSE q \in 0..a : q * b >= a /\ (q - 1) * b < a

NumCols == CeilingOf(bbox.lrx - bbox.ulx, fishnet_size)

NumRows == CeilingOf(bbox.uly - bbox.lry, fishnet_size)

FishnetCounts ==
    /\ Len(fishnet) = NumCols * NumRows
    /\ \A i \in 0..(NumCols - 1), j \in 0..(NumRows - 1) :
          Cardinality({n \in DOMAIN fishnet :
                          fishnet[n][1] = i /\ fishnet[n][2] = j}) = 1

FishnetContained ==
    \A n \in DOMAIN fishnet :
        LET cell == fishnet[n]
        IN /\ cell[5] - cell[3] = fishnet_size
           /\ cell[4] - cell[6] = fishnet_size
           /\ cell[3] = bbox.ulx + cell[1] * fishnet_size
           /\ cell[4] = bbox.uly - cell[2] * fishnet_size
           /\ bbox.ulx <= cell[3]
           /\ cell[5] <= bbox.ulx + NumCols * fishnet_size
           /\ cell[4] <= bbox.uly
           /\ bbox.uly - NumRows * fishnet_size <= cell[6]

BoxPoints ==
    ((2 * bbox.ulx)..(2 * bbox.lrx)) \X ((2 * bbox.lry)..(2 * bbox.uly))

ScenarioA ==
    LET cells == create_fishnet_indices(0, 100, 100, 0, 25)
    IN /\ Len(cells) = 16
       /\ cells[1] = <<0, 0, 0, 100, 25, 75>>

(* C6, as claimed: the fishnet has ceil(width/size) x ceil(height/size)    *)
(* cells, one for every index pair, every cell lies within the origin and  *)
(* the origin plus (numCols*size, numRows*size), and every point of the    *)
(* global bounding box is in exactly one cell; the extent (0,100)-(100,0)  *)
(* with size 25 gives 16 cells, cell (0,0) spanning x 0..25 and y 75..100. *)
C6_EveryPointInOneCell ==
    pc = "copy" =>
        /\ FishnetCounts
        /\ FishnetContained
        /\ ScenarioA
        /\ \A pt \in BoxPoints : Cardinality(CellsAt(pt[1], pt[2])) = 1

(* C6, amended: the counts, the containment and the example as claimed;    *)
(* every point of the global bounding box is in at least one cell, and in  *)
(* exactly one unless it lies on the edge of a cell: neighbouring cells    *)
(* are closed boxes that share their edges, and a point on a shared edge   *)
(* is in each of them.                                                     *)
C6_FishnetCovers ==
    pc = "copy" =>
        /\ FishnetCounts
        /\ FishnetContained
        /\ ScenarioA
        /\ \A pt \in BoxPoints :
              /\ CellsAt(pt[1], pt[2]) # {}
              /\ \A n, m \in CellsAt(pt[1], pt[2]) :
                    n # m => /\ OnCellEdge(fishnet[n], pt[1], pt[2])
                             /\ OnCellEdge(fishnet[m], pt[1], pt[2])

C6_Witness ==
    /\ pc = "copy"
    /\ fishnet_size = MaxCellSize
    /\ NumCols >= 2
    /\ NumRows >= 3
    /\ (bbox.lrx - bbox.ulx) % fishnet_size # 0
    /\ \E pt \in BoxPoints : \E n \in CellsAt(pt[1], pt[2]) :
          ~OnCellEdge(fishnet[n], pt[1], pt[2])

-----------------------------------------------------------------------------
(* Properties of the tiles.  last_tile is the tile of the raster and cell  *)
(* the loop of copy_tiles_from_raster passed last, None when the pair did  *)
(* not pass the overlap test.                                              *)

TileMade == last_tile # None

BothEdges(off, size, raster_size) == off < 0 /\ off + size > raster_size

(* C8: for every raster and cell that pass the overlap test, the window    *)
(* handed to ReadAsArray has, on each axis, read_off >= 0, read_size > 0   *)
(* and read_off + read_size <= the raster's size, also when the cell and   *)
(* the 5 pixels reach past both edges of the raster on one axis.           *)
C8_ReadWindowInside ==
    TileMade =>
        LET w == last_tile.window
        IN /\ w.read_x_off >= 0 /\ w.read_x_size > 0
           /\ w.read_x_off + w.read_x_size <= last_tile.raster.XSize
           /\ w.read_y_off >= 0 /\ w.read_y_size > 0
           /\ w.read_y_off + w.read_y_size <= last_tile.raster.YSize

(* The read window is inside the raster whenever the cell does not reach   *)
(* past both edges of the raster on an axis.                               *)
ReadWindowInsideUnlessBothEdges ==
    TileMade =>
        LET w == last_tile.window
            r == last_tile.raster
        IN /\ ~BothEdges(w.x_off, w.x_size, r.XSize) =>
                 /\ w.read_x_off >= 0 /\ w.read_x_size > 0
                 /\ w.read_x_off + w.read_x_size <= r.XSize
           /\ ~BothEdges(w.y_off, w.y_size, r.YSize) =>
                 /\ w.read_y_off >= 0 /\ w.read_y_size > 0
                 /\ w.read_y_off + w.read_y_size <= r.YSize
           /\ last_tile.copy_ok =
                 (/\ ~BothEdges(w.x_off, w.x_size, r.XSize)
                  /\ ~BothEdges(w.y_off, w.y_size, r.YSize))

(* The buffer of a band: of the intended size, the sentinel outside the    *)
(* destination window, the source pixels inside it.                        *)
BufferFilled(t, band) ==
    LET w == t.window
        buffer == t.slice_array[band]
        x_size == TruncDiv(t.cell[5] - t.cell[3], t.raster.xw) + 5
        y_size == TruncDiv(t.cell[6] - t.cell[4], t.raster.yh) + 5
    IN /\ DOMAIN buffer = 0..(y_size - 1)
       /\ \A row \in 0..(y_size - 1) :
             /\ DOMAIN buffer[row] = 0..(x_size - 1)
             /\ \A col \in 0..(x_size - 1) :
                   LET x == col - w.sa_x_start
                       y == row - w.sa_y_start
                   IN IF /\ 0 <= x /\ x < w.read_x_size
                         /\ 0 <= y /\ y < w.read_y_size
                      THEN buffer[row][col] =
                               PixelValue(t.raster, band, w.read_x_off + x,
                                          w.read_y_off + y)
                      ELSE buffer[row][col] = Sentinel(t.raster)

(* C9: for every raster and cell that pass the overlap test and every      *)
(* band, a buffer of the intended size (the cell in pixels + 5 on each     *)
(* axis) is made, whose pixels outside the destination window of the       *)
(* clamped read window are the sentinel and whose pixels inside it are the *)
(* source pixels of the read window.                                       *)
C9_NoDataFill ==
    TileMade =>
        /\ last_tile.copy_ok
        /\ \A band \in 1..last_tile.raster.bands : BufferFilled(last_tile, band)

(* The buffers that are written are filled as C9 says; none is written     *)
(* when the read is refused.                                               *)
BufferFilledWhenRead ==
    TileMade /\ last_tile.copy_ok =>
        \A band \in 1..last_tile.raster.bands : BufferFilled(last_tile, band)

KeySet(d) == {d[i][1] : i \in DOMAIN d}

(* C14, as claimed: the geotransform of a tile that is written has the     *)
(* raster's pixel width and height, and its origin is the map coordinate   *)
(* of the top-left corner of the clamped read window, raster_xmin +        *)
(* read_x_off * width and raster_ymax + read_y_off * height, also when     *)
(* x_off < 0 or y_off < 0.                                                 *)
C14_OriginOfReadWindow ==
    TileMade /\ last_tile.copy_ok =>
        LET w == last_tile.window
            r == last_tile.raster
        IN last_tile.t_trans =
               <<r.xmin + w.read_x_off * r.xw, r.xw, 0,
                 r.ymax + w.read_y_off * r.yh, 0, r.yh>>

(* The map coordinates the geotransform gives to a pixel *)
MapX(trans, col) == trans[1] + col * trans[2]

MapY(trans, row) == trans[4] + row * trans[6]

(* C14, amended: the geotransform of a tile has the raster's pixel width   *)
(* and height, and its origin is the map coordinate of the pixel (x_off,   *)
(* y_off) of the raster, the corner of the window before it is clamped:    *)
(* that of the read window when x_off >= 0 and y_off >= 0, and left of or  *)
(* above the raster otherwise.  With it every pixel that is copied into    *)
(* the buffer lies at the map coordinates it has in the raster.            *)
C14_OriginOfWindow ==
    TileMade =>
        LET w == last_tile.window
            r == last_tile.raster
            trans == last_tile.t_trans
            source == <<r.xmin, r.xw, 0, r.ymax, 0, r.yh>>
        IN /\ trans[2] = r.xw /\ trans[6] = r.yh
           /\ trans[3] = 0 /\ trans[5] = 0
           /\ trans[1] = r.xmin + w.x_off * r.xw
           /\ trans[4] = r.ymax + w.y_off * r.yh
           /\ w.x_off >= 0 => trans[1] = MapX(source, w.read_x_off)
           /\ w.y_off >= 0 => trans[4] = MapY(source, w.read_y_off)
           /\ last_tile.copy_ok =>
                 /\ \A k \in 0..(w.read_x_size - 1) :
                       MapX(trans, w.sa_x_start + k) =
                           MapX(source, w.read_x_off + k)
                 /\ \A k \in 0..(w.read_y_size - 1) :
                       MapY(trans, w.sa_y_start + k) =
                           MapY(source, w.read_y_off + k)

C14_Witness ==
    /\ TileMade
    /\ last_tile.copy_ok
    /\ last_tile.window.x_off < 0
    /\ last_tile.window.y_off < 0
    /\ last_tile.window.read_x_size >= 2
    /\ last_tile.raster.xw = 2

(* The no-data value the raster specifies, 256 when it specifies none *)
OwnSentinel(raster) ==
    IF raster.nodata = <<>> THEN 256 ELSE raster.nodata[1]

(* The number of pixels of the read arrays of all bands that equal value *)
ReadCount(t, value) ==
    LET w == t.window
    IN Cardinality({<<band, x, y>> \in (1..t.raster.bands)
                                         \X (0..(w.read_x_size - 1))
                                         \X (0..(w.read_y_size - 1)) :
                       PixelValue(t.raster, band, w.read_x_off + x,
                                  w.read_y_off + y) = value})

(* C15: the sentinel a tile is filled with and its no-data pixels are      *)
(* counted with is the no-data value of the raster whenever the raster     *)
(* specifies one, the value 0 included, and 256 only when it specifies     *)
(* none.                                                                   *)
C15_OwnSentinel ==
    TileMade =>
        /\ last_tile.s_nodata = OwnSentinel(last_tile.raster)
        /\ last_tile.copy_ok =>
              /\ last_tile.num_nodata =
                     ReadCount(last_tile, OwnSentinel(last_tile.raster))
              /\ \A band \in 1..last_tile.raster.bands :
                    \A row \in DOMAIN last_tile.slice_array[band] :
                        \A col \in DOMAIN last_tile.slice_array[band][row] :
                            (col < last_tile.window.sa_x_start
                                \/ row < last_tile.window.sa_y_start) =>
                              last_tile.slice_array[band][row][col] =
                                  OwnSentinel(last_tile.raster)

(* The sentinel is the raster's no-data value unless that is 0 or none,    *)
(* and then 256; it is the value the read pixels are counted with.         *)
SentinelUnlessZero ==
    TileMade =>
        /\ last_tile.s_nodata =
              IF last_tile.raster.nodata = <<0>> THEN 256
              ELSE OwnSentinel(last_tile.raster)
        /\ last_tile.copy_ok =>
              last_tile.num_nodata = ReadCount(last_tile, last_tile.s_nodata)

(* The destination window of one axis lies in the buffer and has the size  *)
(* of the read window.                                                     *)
DestinationFits(sa_start, sa_end, size, read_size) ==
    /\ 0 <= sa_start /\ sa_start <= sa_end /\ sa_end <= size
    /\ sa_end - sa_start = read_size

(* C16: for every raster and cell that pass the overlap test, on each axis *)
(* the destination window sa_start..sa_end lies inside the buffer 0..size  *)
(* and has exactly the size of the clamped read window, so that the copy   *)
(* of the read data into the buffer does not fail and the run is not       *)
(* aborted, also when the window reaches before the origin and past the    *)
(* far edge of the raster on the same axis.                                *)
C16_DestinationFitsRead ==
    TileMade =>
        LET w == last_tile.window
        IN /\ DestinationFits(w.sa_x_start, w.sa_x_end, w.x_size, w.read_x_size)
           /\ DestinationFits(w.sa_y_start, w.sa_y_end, w.y_size, w.read_y_size)
           /\ last_tile.copy_ok
           /\ pc # "aborted"

(* The destination window fits on every axis that does not reach past both *)
(* edges of the raster, and lies in the buffer on every axis.              *)
DestinationFitsUnlessBothEdges ==
    TileMade =>
        LET w == last_tile.window
            r == last_tile.raster
        IN /\ 0 <= w.sa_x_start /\ w.sa_x_start <= w.sa_x_end
           /\ w.sa_x_end <= w.x_size
           /\ 0 <= w.sa_y_start /\ w.sa_y_start <= w.sa_y_end
           /\ w.sa_y_end <= w.y_size
           /\ DestinationFits(w.sa_x_start, w.sa_x_end, w.x_size, w.read_x_size)
                 = ~BothEdges(w.x_off, w.x_size, r.XSize)
           /\ DestinationFits(w.sa_y_start, w.sa_y_end, w.y_size, w.read_y_size)
                 = ~BothEdges(w.y_off, w.y_size, r.YSize)
           /\ (pc = "aborted") = ~last_tile.copy_ok

(* The number of pixels of the buffers of all bands that equal value *)
BufferCount(t, value) ==
    Cardinality({<<band, row, col>> \in (1..t.raster.bands)
                                         \X (0..(t.window.y_size - 1))
                                         \X (0..(t.window.x_size - 1)) :
                   t.slice_array[band][row][col] = value})

(* C17: for every tile that is written, 3 * nodatas (num_nodata) is the    *)
(* number of pixels of the tile's buffers, all bands together, that equal  *)
(* the sentinel: the pixels filled with the sentinel outside the read      *)
(* window are counted as well as the pixels read from the raster.          *)
C17_CountsWholeTile ==
    TileMade /\ last_tile.copy_ok =>
        /\ last_tile.new_num_nodata = Exact(last_tile.num_nodata)
        /\ last_tile.num_nodata = BufferCount(last_tile, last_tile.s_nodata)

(* num_nodata is the number of pixels read from the raster that equal the  *)
(* sentinel; the buffer holds these and the pixels filled in.              *)
CountsReadPixels ==
    TileMade /\ last_tile.copy_ok =>
        LET w == last_tile.window
            filled == last_tile.raster.bands *
                          (w.x_size * w.y_size - w.read_x_size * w.read_y_size)
        IN /\ last_tile.num_nodata = ReadCount(last_tile, last_tile.s_nodata)
           /\ BufferCount(last_tile, last_tile.s_nodata) =
                 last_tile.num_nodata + filled

(* The boxes of the raster and of the cell overlap with positive area *)
PositiveOverlap(raster, cell) ==
    LET box == get_bounding_box(raster)
    IN /\ Max({box[1], cell[3]}) < Min({box[3], cell[5]})
       /\ Max({box[4], cell[6]}) < Min({box[2], cell[4]})

(* The cells the loop of copy_tiles_from_raster has passed for the raster  *)
(* at ri.                                                                  *)
CellsPassed ==
    IF pc \in {"copy", "aborted"} /\ ri <= Len(rasters)
    THEN {fishnet[n] : n \in 1..(ci - 1)}
    ELSE {}

(* The tiles of the raster at ri that are made for the cell *)
TilesOf(cell) ==
    IF Has(raster_cells, CellIndex(cell[1], cell[2]))
    THEN KeySet(Get(raster_cells, CellIndex(cell[1], cell[2])))
    ELSE {}

(* C11: a raster and a cell whose boxes overlap with positive area on both *)
(* axes give exactly one tile of the raster for the cell, and a pair that  *)
(* does not overlap gives none; also when the raster lies strictly inside  *)
(* the cell or an edge of the raster is an edge of the cell.               *)
C11_TileIffOverlap ==
    \A cell \in CellsPassed :
        TilesOf(cell) =
            IF PositiveOverlap(rasters[ri], cell)
            THEN {TileRastername(CellIndex(cell[1], cell[2]), rasters[ri].name)}
            ELSE {}

(* What the overlap test lets through: no tile for a pair that does not    *)
(* overlap, and one tile for a pair that passes the test, unless the read  *)
(* is refused.                                                             *)
TileIffTestPassed ==
    \A cell \in CellsPassed :
        /\ Overlaps(rasters[ri], cell) => PositiveOverlap(rasters[ri], cell)
        /\ TilesOf(cell) =
              IF Overlaps(rasters[ri], cell) /\ Extract(rasters[ri], cell).copy_ok
              THEN {TileRastername(CellIndex(cell[1], cell[2]),
                                   rasters[ri].name)}
              ELSE {}

(* A raster strictly inside a cell, passed by the loop without a tile *)
RasterInsideCellSkipped ==
    \E cell \in CellsPassed :
        LET box == get_bounding_box(rasters[ri])
        IN /\ cell[3] < box[1] /\ box[3] < cell[5]
           /\ cell[6] < box[4] /\ box[2] < cell[4]
           /\ TilesOf(cell) = {}
           /\ pc = "copy"

-----------------------------------------------------------------------------
(* Properties of the score store. *)

Reread == built # None /\ pc # "read"

SameTiles ==
    /\ KeySet(all_cells) = KeySet(built.all_cells)
    /\ \A c \in KeySet(all_cells) :
          /\ KeySet(Get(all_cells, c)) = KeySet(Get(built.all_cells, c))
          /\ \A name \in KeySet(Get(all_cells, c)) :
                Get(Get(all_cells, c), name).override = FALSE
    /\ \A i \in DOMAIN shp_layer :
          Has(Get(all_cells, shp_layer[i].cell),
              shp_layer[i].cell \o <<"_">> \o
                  ButLast4(shp_layer[i].raster) \o DotTif)

(* The tiles of every cell ranked in the order of the build run *)
SameRanks ==
    /\ \A c \in KeySet(ranked) :
          Names(Get(ranked, c)) = Names(Get(built.ranked, c))
    /\ pc = "done" =>
          /\ KeySet(ranked) = KeySet(built.ranked)
          /\ vrt_list = built.vrt_list

TilePairs ==
    UNION {{<<Get(Get(all_cells, c), name), Get(Get(built.all_cells, c), name)>> :
               name \in {n \in KeySet(Get(all_cells, c)) :
                            Has(Get(built.all_cells, c), n)}} :
           c \in KeySet(all_cells) \cap KeySet(built.all_cells)}

=============================================================================
